---- MODULE Spec2Model ----
(***************************************************************************)
(* A model of server.js, the OpenAI -> NVIDIA NIM chat-completion proxy.   *)
(*                                                                         *)
(* JavaScript strings are TLA+ strings.  An upstream chunk is a Buffer of  *)
(* bytes; it is written here as a string with one character per byte.     *)
(* Four characters are stand-ins, so that the two-byte UTF-8 character     *)
(* U+00E9 can be told apart from its bytes:                                *)
(*     "^"  the byte 0xC3 (lead byte of U+00E9)                            *)
(*     "~"  the byte 0xA9 (continuation byte of U+00E9)                    *)
(*     "@"  the decoded character U+00E9                                   *)
(*     "?"  the decoded replacement character U+FFFD                       *)
(* Every other character is ASCII and is its own single byte.              *)
(***************************************************************************)
EXTENDS Integers, Sequences, FiniteSets, TLC

(***************************************************************************)
(* Bounds of the model.                                                    *)
(***************************************************************************)
NumReq == 2
MaxFrames == 3
MaxChunkFrames == 2

Requests == 1..NumReq

(***************************************************************************)
(* JavaScript values that are not strings.                                 *)
(***************************************************************************)
Undefined == "<undefined>"
Null == "<null>"

(***************************************************************************)
(* String primitives.                                                      *)
(***************************************************************************)
Char(s, i) == IF i >= 1 /\ i <= Len(s) THEN SubSeq(s, i, i) ELSE ""

Slice(s, n) == SubSeq(s, n + 1, Len(s))

StartsWith(s, p) == Len(s) >= Len(p) /\ SubSeq(s, 1, Len(p)) = p

LitAt(s, i, lit) ==
    /\ i >= 1
    /\ i + Len(lit) - 1 <= Len(s)
    /\ SubSeq(s, i, i + Len(lit) - 1) = lit

Includes(s, p) == \E i \in 1..Len(s) : LitAt(s, i, p)

Least(S) == IF S = {} THEN 0 ELSE CHOOSE i \in S : \A j \in S : i <= j

\* The first position of the character c in s, 0 when there is none.
IndexOf(s, c) == Least({i \in 1..Len(s) : Char(s, i) = c})

RECURSIVE Concat(_)
Concat(ss) == IF ss = <<>> THEN "" ELSE Head(ss) \o Concat(Tail(ss))

(***************************************************************************)
(* chunk.toString(): UTF-8 decoding of one Buffer on its own.  A lead byte *)
(* that its continuation byte does not follow inside the same Buffer, and  *)
(* a continuation byte without a lead byte, each decode to U+FFFD.         *)
(***************************************************************************)
DecodeAt(b, i) ==
    IF Char(b, i) = "^" THEN (IF Char(b, i + 1) = "~" THEN "@" ELSE "?")
    ELSE IF Char(b, i) = "~" THEN (IF Char(b, i - 1) = "^" THEN "" ELSE "?")
    ELSE Char(b, i)

RECURSIVE DecodeRange(_, _, _)
DecodeRange(b, lo, hi) ==
    IF lo > hi THEN ""
    ELSE IF lo = hi THEN DecodeAt(b, lo)
    ELSE DecodeRange(b, lo, (lo + hi) \div 2) \o DecodeRange(b, (lo + hi) \div 2 + 1, hi)

Utf8Decode(b) == DecodeRange(b, 1, Len(b))

toString(chunk) ==
    IF Includes(chunk, "^") \/ Includes(chunk, "~") THEN Utf8Decode(chunk) ELSE chunk

(***************************************************************************)
(* buffer.split('\n')                                                      *)
(***************************************************************************)
RECURSIVE Split(_)
Split(s) ==
    LET i == IndexOf(s, "\n")
    IN  IF i = 0 THEN <<s>>
        ELSE <<SubSeq(s, 1, i - 1)>> \o Split(Slice(s, i))

(***************************************************************************)
(* JSON.  A parsed frame body is [choices |-> <<choice, ...>>]; a choice   *)
(* is [hasIndex, index, delta]; a delta is the sequence of its <<key,      *)
(* value>> members in insertion order, as a JavaScript object keeps them.  *)
(* JSONparse accepts the frame bodies of the upstream protocol,            *)
(*     {"choices":[{"index":N,"delta":{"key":"string",...}},...]}          *)
(* with "index" optional, and throws (ok = FALSE) on every other text.     *)
(***************************************************************************)
ParseFail == [ok |-> FALSE, val |-> "", next |-> 0]

\* The text of a string literal from position i (after its opening quote) to
\* its closing quote, with the escapes \n, \" and \\ undone.
EscapeAt(s, i) == Char(s, i) = "\\"
BadEscapeAt(s, i) == EscapeAt(s, i) /\ Char(s, i + 1) \notin {"n", "\"", "\\"}
UnescapedAt(s, i) ==
    IF ~EscapeAt(s, i) THEN Char(s, i)
    ELSE IF Char(s, i + 1) = "n" THEN "\n" ELSE Char(s, i + 1)

RECURSIVE ScanString(_, _, _)
ScanString(s, i, acc) ==
    IF i > Len(s) \/ BadEscapeAt(s, i) THEN ParseFail
    ELSE IF Char(s, i) = "\"" THEN [ok |-> TRUE, val |-> acc, next |-> i + 1]
    ELSE ScanString(s, IF EscapeAt(s, i) THEN i + 2 ELSE i + 1, acc \o UnescapedAt(s, i))

HasField(delta, k) == \E j \in 1..Len(delta) : delta[j][1] = k

GetField(delta, k) ==
    IF HasField(delta, k)
    THEN delta[CHOOSE j \in 1..Len(delta) : delta[j][1] = k][2]
    ELSE Undefined

SetField(delta, k, v) ==
    IF HasField(delta, k)
    THEN [j \in 1..Len(delta) |-> IF delta[j][1] = k THEN <<k, v>> ELSE delta[j]]
    ELSE Append(delta, <<k, v>>)

DeleteField(delta, k) == SelectSeq(delta, LAMBDA m : m[1] # k)

\* The members "key":"value",... of a delta, from position i to its "}".
RECURSIVE ParseMembers(_, _, _)
MemberValue(s, acc, v) ==
    IF ~v.ok THEN ParseFail
    ELSE IF LitAt(s, v.next, ",") THEN ParseMembers(s, v.next + 1, acc)
    ELSE IF LitAt(s, v.next, "}") THEN [ok |-> TRUE, val |-> acc, next |-> v.next + 1]
    ELSE ParseFail

MemberKey(s, acc, k, v) ==
    MemberValue(s, IF v.ok THEN SetField(acc, k.val, v.val) ELSE acc, v)

MemberColon(s, acc, k) ==
    IF ~k.ok \/ ~LitAt(s, k.next, ":\"") THEN ParseFail
    ELSE MemberKey(s, acc, k, ScanString(s, k.next + 2, ""))

ParseMembers(s, i, acc) ==
    IF ~LitAt(s, i, "\"") THEN ParseFail
    ELSE MemberColon(s, acc, ScanString(s, i + 1, ""))

ParseDelta(s, i) ==
    IF LitAt(s, i, "{}") THEN [ok |-> TRUE, val |-> <<>>, next |-> i + 2]
    ELSE IF LitAt(s, i, "{") THEN ParseMembers(s, i + 1, <<>>)
    ELSE ParseFail

Digits == {"0", "1", "2", "3", "4", "5", "6", "7", "8", "9"}

HasIndexAt(s, i) ==
    LitAt(s, i, "{\"index\":") /\ Char(s, i + 9) \in Digits /\ LitAt(s, i + 10, ",")

ChoiceOf(s, i, hasIndex, d) ==
    IF ~d.ok \/ ~LitAt(s, d.next, "}") THEN ParseFail
    ELSE [ok |-> TRUE,
          val |-> [hasIndex |-> hasIndex,
                   index |-> IF hasIndex THEN Char(s, i + 9) ELSE "",
                   delta |-> d.val],
          next |-> d.next + 1]

ChoiceAt(s, i, hasIndex, at) ==
    IF ~LitAt(s, i, "{") \/ ~LitAt(s, at, "\"delta\":") THEN ParseFail
    ELSE ChoiceOf(s, i, hasIndex, ParseDelta(s, at + 8))

ParseChoice(s, i) ==
    ChoiceAt(s, i, HasIndexAt(s, i), IF HasIndexAt(s, i) THEN i + 11 ELSE i + 1)

RECURSIVE ParseChoices(_, _, _)
ChoicesNext(s, acc, c) ==
    IF ~c.ok THEN ParseFail
    ELSE IF LitAt(s, c.next, ",") THEN ParseChoices(s, c.next + 1, Append(acc, c.val))
    ELSE IF LitAt(s, c.next, "]")
         THEN [ok |-> TRUE, val |-> Append(acc, c.val), next |-> c.next + 1]
    ELSE ParseFail

ParseChoices(s, i, acc) == ChoicesNext(s, acc, ParseChoice(s, i))

NotJson == [ok |-> FALSE, data |-> [choices |-> <<>>]]

PayloadOf(s, cs) ==
    IF cs.ok /\ LitAt(s, cs.next, "}") /\ cs.next = Len(s)
    THEN [ok |-> TRUE, data |-> [choices |-> cs.val]]
    ELSE NotJson

JSONparse(s) ==
    IF s = "{\"choices\":[]}" THEN [ok |-> TRUE, data |-> [choices |-> <<>>]]
    ELSE IF ~LitAt(s, 1, "{\"choices\":[") THEN NotJson
    ELSE PayloadOf(s, ParseChoices(s, 13, <<>>))

RECURSIVE Escape(_)
Escape(v) ==
    IF v = "" THEN ""
    ELSE (CASE Char(v, 1) = "\n" -> "\\n"
            [] Char(v, 1) = "\"" -> "\\\""
            [] Char(v, 1) = "\\" -> "\\\\"
            [] OTHER -> Char(v, 1)) \o Escape(Slice(v, 1))

RECURSIVE StringifyMembers(_)
StringifyMembers(delta) ==
    IF delta = <<>> THEN ""
    ELSE "\"" \o delta[1][1] \o "\":\"" \o Escape(delta[1][2]) \o "\""
         \o (IF Len(delta) > 1 THEN "," ELSE "") \o StringifyMembers(Tail(delta))

StringifyChoice(c) ==
    "{" \o (IF c.hasIndex THEN "\"index\":" \o c.index \o "," ELSE "")
        \o "\"delta\":{" \o StringifyMembers(c.delta) \o "}}"

RECURSIVE StringifyChoices(_)
StringifyChoices(cs) ==
    IF cs = <<>> THEN ""
    ELSE StringifyChoice(cs[1]) \o (IF Len(cs) > 1 THEN "," ELSE "")
         \o StringifyChoices(Tail(cs))

JSONstringify(data) == "{\"choices\":[" \o StringifyChoices(data.choices) \o "]}"

(***************************************************************************)
(* The process-wide toggle and the frames the transcoder writes itself.    *)
(***************************************************************************)
SHOW_REASONING == TRUE

Marker == "data: "
Sentinel == "[DONE]"
OpenTag == "<think>\n"
CloseTag == "</think>\n\n"
DoneFrame == "data: [DONE]\n\n"

CloseFrame ==
    Marker \o JSONstringify([choices |-> <<[hasIndex |-> TRUE, index |-> "0",
                                            delta |-> <<<<"content", CloseTag>>>>]>>])
           \o "\n\n"

Truthy(v) == v # Undefined /\ v # Null /\ v # ""

(***************************************************************************)
(* The body of lines.forEach: one line against the per-request state       *)
(* st = [buffer, reasoningStarted, out], out being the res.write calls.    *)
(***************************************************************************)
\* combinedContent and reasoningStarted after the two if / else-if pairs.
Combined(started, reasoning, content) ==
    LET opening == Truthy(reasoning) /\ ~started
        open == started \/ Truthy(reasoning)
    IN  [content |-> (IF opening THEN OpenTag ELSE "")
                     \o (IF Truthy(reasoning) THEN reasoning ELSE "")
                     \o (IF Truthy(content) /\ open THEN CloseTag ELSE "")
                     \o (IF Truthy(content) THEN content ELSE ""),
         reasoningStarted |-> open /\ ~Truthy(content)]

\* The delta as it is re-serialised.
NewDelta(delta, content, combined) ==
    DeleteField(
        IF SHOW_REASONING
        THEN IF combined # "" THEN SetField(delta, "content", combined) ELSE delta
        ELSE SetField(delta, "content", IF Truthy(content) THEN content ELSE ""),
        "reasoning_content")

Rewritten(st, data, delta, content, c) ==
    [st EXCEPT
        !.out = Append(st.out,
                  Marker \o JSONstringify(
                      [choices |->
                          IF data.choices = <<>> THEN <<>>
                          ELSE [data.choices EXCEPT
                                   ![1].delta = NewDelta(delta, content, c.content)]])
                  \o "\n\n"),
        !.reasoningStarted = IF SHOW_REASONING THEN c.reasoningStarted
                             ELSE st.reasoningStarted]

RewriteDelta(st, data, delta, reasoning, content) ==
    Rewritten(st, data, delta, content, Combined(st.reasoningStarted, reasoning, content))

Rewrite(st, data, delta) ==
    RewriteDelta(st, data, delta, GetField(delta, "reasoning_content"),
                 GetField(delta, "content"))

\* The try block: JSON.parse, the rewrite, res.write; the catch forwards the line.
\* Without a choices[0].delta there is nothing to rewrite (no fragment, and the
\* choices are re-serialised as they are).
Parsed(st, line, p) ==
    IF ~p.ok THEN [st EXCEPT !.out = Append(st.out, line \o "\n")]
    ELSE Rewrite(st, p.data,
                 IF Len(p.data.choices) >= 1 THEN p.data.choices[1].delta ELSE <<>>)

\* The termination branch.
Terminated(st) ==
    IF SHOW_REASONING /\ st.reasoningStarted
    THEN [st EXCEPT !.out = st.out \o <<CloseFrame, DoneFrame>>,
                    !.reasoningStarted = FALSE]
    ELSE [st EXCEPT !.out = Append(st.out, DoneFrame)]

ProcessLine(st, line) ==
    IF ~StartsWith(line, Marker) THEN st
    ELSE IF Includes(line, Sentinel) THEN Terminated(st)
    ELSE Parsed(st, line, JSONparse(Slice(line, 6)))

RECURSIVE ForEachLine(_, _)
ForEachLine(st, lines) ==
    IF lines = <<>> THEN st
    ELSE ForEachLine(ProcessLine(st, Head(lines)), Tail(lines))

(***************************************************************************)
(* response.data.on('data', chunk)                                         *)
(***************************************************************************)
OnData(st, chunk) ==
    LET lines == Split(st.buffer \o toString(chunk))
        n == Len(lines)
    IN  ForEachLine([st EXCEPT !.buffer = lines[n]], SubSeq(lines, 1, n - 1))

NewStream == [buffer |-> "", reasoningStarted |-> FALSE, out |-> <<>>]

(***************************************************************************)
(* The Model Resolver: the static alias table, model.toLowerCase() and the *)
(* heuristic fallback.                                                     *)
(***************************************************************************)
MODEL_MAPPING ==
    ("gpt-3.5-turbo" :> "nvidia/llama-3.1-nemotron-ultra-253b-v1")
    @@ ("gpt-4" :> "qwen/qwen3-coder-480b-a35b-instruct")
    @@ ("gpt-4-turbo" :> "moonshotai/kimi-k2-instruct-0905")
    @@ ("gpt-4o" :> "deepseek-ai/deepseek-v3.1")
    @@ ("claude-3-opus" :> "z-ai/glm4.7")
    @@ ("claude-3-sonnet" :> "z-ai/glm5")
    @@ ("gemini-pro" :> "qwen/qwen3-next-80b-a3b-thinking")

MappingGet(model) ==
    IF model \in DOMAIN MODEL_MAPPING THEN MODEL_MAPPING[model] ELSE Undefined

LargeTier == "meta/llama-3.1-405b-instruct"
MediumTier == "meta/llama-3.1-70b-instruct"
SmallTier == "meta/llama-3.1-8b-instruct"

UpperCase == "ABCDEFGHIJKLMNOPQRSTUVWXYZ"
LowerCase == "abcdefghijklmnopqrstuvwxyz"

RECURSIVE toLowerCase(_)
toLowerCase(s) ==
    IF s = "" THEN ""
    ELSE LET c == Char(s, 1)
             i == IndexOf(UpperCase, c)
         IN  (IF i = 0 THEN c ELSE Char(LowerCase, i)) \o toLowerCase(Slice(s, 1))

\* The heuristic on the identifier as given, without toLowerCase.
FallbackCaseSensitive(model) ==
    IF Includes(model, "gpt-4") \/ Includes(model, "claude-opus") \/ Includes(model, "405b")
    THEN LargeTier
    ELSE IF Includes(model, "claude") \/ Includes(model, "gemini") \/ Includes(model, "70b")
    THEN MediumTier
    ELSE SmallTier

Fallback(model) ==
    LET ml == toLowerCase(model)
    IN  IF Includes(ml, "gpt-4") \/ Includes(ml, "claude-opus") \/ Includes(ml, "405b")
        THEN LargeTier
        ELSE IF Includes(ml, "claude") \/ Includes(ml, "gemini") \/ Includes(ml, "70b")
        THEN MediumTier
        ELSE SmallTier

IsString(v) == v # Undefined /\ v # Null

(***************************************************************************)
(* verifiedModels: the Map, as a function on the keys it has.              *)
(***************************************************************************)
MapHas(m, k) == k \in DOMAIN m
MapGet(m, k) == IF k \in DOMAIN m THEN m[k] ELSE Undefined
MapSet(m, k, v) == [x \in DOMAIN m \cup {k} |-> IF x = k THEN v ELSE m[x]]
EmptyMap == [x \in {} |-> ""]

(***************************************************************************)
(* Inputs: the request bodies express.json() hands to the handler, the     *)
(* outcomes of the two upstream calls, and the upstream byte streams.      *)
(***************************************************************************)
UserMessage == [role |-> "user", content |-> "hi"]

NoMessages == [type |-> "undefined", length |-> 0, items |-> <<>>]
EmptyMessages == [type |-> "array", length |-> 0, items |-> <<>>]
OneMessage == [type |-> "array", length |-> 1, items |-> <<UserMessage>>]
TextMessages == [type |-> "string", length |-> 2, items |-> <<>>]

MessagesValues == {NoMessages, EmptyMessages, OneMessage, TextMessages}

ModelValues == {Undefined, "gpt-4", "Llama-70B", "gpt-4-70b", "mistral-7b"}

\* temperature and max_tokens: a number or missing.  Temperatures are counted
\* in hundredths, so that 0.85 is the integer 85.
Absent == [type |-> "undefined", value |-> 0]
Number(n) == [type |-> "number", value |-> n]

Bodies ==
    [model : ModelValues, messages : MessagesValues, stream : {Undefined, "true"},
     temperature : {Absent}, max_tokens : {Absent}]

NoBody ==
    [model |-> Undefined, messages |-> NoMessages, stream |-> Undefined,
     temperature |-> Absent, max_tokens |-> Absent]

TemperatureValues == {Absent, Number(0), Number(70), Number(200)}
MaxTokensValues == {Absent, Number(0), Number(1), Number(256)}

\* Well-formed requests for an alias of the table, with every combination of
\* the two optional numbers.
TranscodeBodies ==
    [model : {"gpt-4"}, messages : {OneMessage}, stream : {Undefined, "true"},
     temperature : TemperatureValues, max_tokens : MaxTokensValues]

ProbeOutcomes == {"2xx", "4xx", "5xx", "timeout"}

RejectStatuses == {429, 503}

(***************************************************************************)
(* Upstream bodies of a non-streaming call: response.data as axios parses  *)
(* it.  A choice's message carries reasoning_content and content, each a   *)
(* string or missing, content also null; usage is an object or missing.    *)
(***************************************************************************)
MaxChoices == 2

SeqsUpTo(S, n) == UNION {[1..k -> S] : k \in 0..n}

ReasoningValues == {Undefined, "", "r"}
ContentValues == {Undefined, Null, "", "c"}

UpstreamChoices ==
    [index : {0}, role : {"assistant"}, reasoning_content : ReasoningValues,
     content : ContentValues, finish_reason : {"stop"}]

ZeroUsage ==
    [type |-> "object", prompt_tokens |-> 0, completion_tokens |-> 0, total_tokens |-> 0]
NoUsage ==
    [type |-> "undefined", prompt_tokens |-> 0, completion_tokens |-> 0, total_tokens |-> 0]
SomeUsage ==
    [type |-> "object", prompt_tokens |-> 3, completion_tokens |-> 5, total_tokens |-> 8]

\* Choices numbered by their position, as the upstream numbers them.
Numbered(cs) == [i \in 1..Len(cs) |-> [cs[i] EXCEPT !.index = i - 1]]

ReplyBodies ==
    {[hasChoices |-> TRUE, choices |-> Numbered(cs), usage |-> u] :
        cs \in SeqsUpTo(UpstreamChoices, MaxChoices), u \in {NoUsage, SomeUsage}}
    \cup {[hasChoices |-> FALSE, choices |-> <<>>, usage |-> NoUsage]}

PlainReply ==
    [hasChoices |-> TRUE,
     choices |-> <<[index |-> 0, role |-> "assistant", reasoning_content |-> "r",
                    content |-> "c", finish_reason |-> "stop"]>>,
     usage |-> NoUsage]

DispatchReplies == {PlainReply}

NoPayload == [model |-> Undefined, choices |-> <<>>, usage |-> NoUsage]

(***************************************************************************)
(* Upstream frames.  A frame is one line carrying the marker, followed by  *)
(* the boundary "\n\n".                                                    *)
(***************************************************************************)
Boundary == "\n\n"

ReasoningLine == "data: {\"choices\":[{\"index\":0,\"delta\":{\"reasoning_content\":\"hi\"}}]}"
AnswerLine == "data: {\"choices\":[{\"index\":0,\"delta\":{\"content\":\"world\"}}]}"
BothLine ==
    "data: {\"choices\":[{\"index\":0,\"delta\":{\"reasoning_content\":\"hm\",\"content\":\"ok\"}}]}"
DoneLine == "data: [DONE]"
MalformedLine == "data: {oops"
MalformedDoneLine == "data: {\"note\":\"[DONE]\""
QuotedDoneLine ==
    "data: {\"choices\":[{\"index\":0,\"delta\":{\"reasoning_content\":\"say [DONE]\"}}]}"
TwoChoicesLine ==
    "data: {\"choices\":[{\"index\":0,\"delta\":{\"content\":\"a\"}},"
        \o "{\"index\":1,\"delta\":{\"reasoning_content\":\"b\"}}]}"
AccentLine == "data: {\"choices\":[{\"index\":0,\"delta\":{\"content\":\"^~\"}}]}"
CommentLine == ": keep-alive"

ErrorFrame == "data: {\"error\":{\"message\":\"aborted\"}}\n\n"

FrameLines ==
    {ReasoningLine, AnswerLine, BothLine, DoneLine, MalformedLine, MalformedDoneLine,
     QuotedDoneLine, TwoChoicesLine, CommentLine}

ChunkLines == {ReasoningLine, DoneLine, AccentLine, MalformedLine}

RECURSIVE Join(_)
Join(ls) == IF ls = <<>> THEN "" ELSE Head(ls) \o Boundary \o Join(Tail(ls))

FrameStreams == {Join(ls) : ls \in SeqsUpTo(FrameLines, MaxFrames)}
ChunkStreams == {Join(ls) : ls \in SeqsUpTo(ChunkLines, MaxChunkFrames)}
DispatchStreams == {"", Join(<<ReasoningLine, AnswerLine, DoneLine>>)}

(***************************************************************************)
(* The request transcoding: the body of the main upstream call.            *)
(***************************************************************************)
\* The defaults of nimRequest.
DefaultTemperature == 85
DefaultMaxTokens == 1009024
ENABLE_THINKING_MODE == TRUE

\* The default whenever the field is missing, whatever its value.
OrDefaultIfAbsent(v, default) == IF v.type = "number" THEN v ELSE Number(default)

\* v || default: the default for every falsy v, the number 0 included.
OrDefault(v, default) ==
    IF v.type = "number" /\ v.value # 0 THEN v ELSE Number(default)

NoRequest ==
    [model |-> Undefined, messages |-> NoMessages, temperature |-> Absent,
     max_tokens |-> Absent, stream |-> "false", thinking |-> FALSE]

\* const nimRequest = { model: nimModel, messages, temperature: temperature || 0.85,
\* max_tokens: max_tokens || 1009024, stream: stream || false, ... }
NimRequest(b, model) ==
    [model |-> model,
     messages |-> b.messages,
     temperature |-> OrDefault(b.temperature, DefaultTemperature),
     max_tokens |-> OrDefault(b.max_tokens, DefaultMaxTokens),
     stream |-> IF Truthy(b.stream) THEN b.stream ELSE "false",
     thinking |-> ENABLE_THINKING_MODE]

(***************************************************************************)
(* State.  Everything but verifiedModels is per request.                   *)
(***************************************************************************)
VARIABLES
    verifiedModels,     \* the process-wide memo
    pc,                 \* idle, probing, calling, streaming, done, rejected
    body,               \* req.body
    nimModel,           \* the resolved model
    nimRequest,         \* the body of the main upstream call
    probeCalls,         \* probe calls issued for the request
    upstreamCalls,      \* main upstream calls issued for the request
    res,                \* the response object
    upstream,           \* bytes of response.data not yet delivered
    fed,                \* bytes of response.data delivered so far
    buffer,             \* let buffer
    reasoningStarted,   \* let reasoningStarted
    out,                \* the arguments of the res.write calls, in order
    reply               \* response.data of the main call of a non-streaming request

vars == <<verifiedModels, pc, body, nimModel, nimRequest, probeCalls, upstreamCalls, res,
          upstream, fed, buffer, reasoningStarted, out, reply>>

streamVars == <<upstream, fed, buffer, reasoningStarted, out>>

NewResponse ==
    [statusCode |-> 200, headersSent |-> FALSE, ended |-> 0, sse |-> FALSE,
     sent |-> "none", nimError |-> Null, destroyed |-> FALSE, payload |-> NoPayload]

Init ==
    /\ verifiedModels = EmptyMap
    /\ pc = [r \in Requests |-> "idle"]
    /\ body = [r \in Requests |-> NoBody]
    /\ nimModel = [r \in Requests |-> Undefined]
    /\ nimRequest = [r \in Requests |-> NoRequest]
    /\ probeCalls = [r \in Requests |-> 0]
    /\ upstreamCalls = [r \in Requests |-> 0]
    /\ res = [r \in Requests |-> NewResponse]
    /\ upstream = [r \in Requests |-> ""]
    /\ fed = [r \in Requests |-> ""]
    /\ buffer = [r \in Requests |-> ""]
    /\ reasoningStarted = [r \in Requests |-> FALSE]
    /\ out = [r \in Requests |-> <<>>]
    /\ reply \in [Requests -> DispatchReplies]

(***************************************************************************)
(* Pieces of app.post('/v1/chat/completions').                             *)
(***************************************************************************)
\* messages && messages.length > 0, then messages.forEach: a non-empty string
\* has a length and no forEach, so the call throws a TypeError.
LoggingThrows(messages) == messages.type = "string" /\ messages.length > 0

\* The validation without its length test.
InvalidMessagesNoLength(messages) == messages.type # "array"

\* !messages || !Array.isArray(messages) || messages.length === 0
InvalidMessages(messages) ==
    \/ messages.type = "undefined"
    \/ messages.type = "string" /\ messages.length = 0
    \/ messages.type # "array"
    \/ messages.length = 0

\* The memo consulted with get instead of has: a recorded null reads as absent.
NeedsProbeUnlessConfirmed(memo, model) == ~Truthy(MapGet(memo, model))

\* The else branch of verifiedModels.has(model): a probe is needed.
NeedsProbe(memo, model) == ~MapHas(memo, model)

\* if (cached) nimModel = cached
FromMemo(memo, model) ==
    IF Truthy(MapGet(memo, model)) THEN MapGet(memo, model) ELSE Undefined

\* res.status(status).json(envelope)
SendJson(response, status, type, nimError) ==
    [response EXCEPT !.statusCode = status, !.headersSent = TRUE, !.ended = @ + 1,
                     !.sent = type, !.nimError = nimError]

\* The catch block for an error without error.response (a TypeError, a
\* timeout, a connection error): headers are not sent, so a 500 envelope.
Catch500(r) ==
    /\ res' = [res EXCEPT ![r] = SendJson(@, 500, "proxy_error", Null)]
    /\ pc' = [pc EXCEPT ![r] = "done"]

\* if (!nimModel) { const ml = model.toLowerCase(); ... }, then the main
\* upstream call is issued.  toLowerCase on a model that is no string throws.
ResolveAndCall(r, b, found) ==
    IF ~Truthy(found) /\ ~IsString(b.model)
    THEN /\ Catch500(r)
         /\ UNCHANGED <<nimModel, nimRequest, upstreamCalls>>
    ELSE /\ nimModel' = [nimModel EXCEPT
                ![r] = IF Truthy(found) THEN found ELSE Fallback(b.model)]
         /\ nimRequest' = [nimRequest EXCEPT
                ![r] = NimRequest(b, IF Truthy(found) THEN found ELSE Fallback(b.model))]
         /\ upstreamCalls' = [upstreamCalls EXCEPT ![r] = @ + 1]
         /\ pc' = [pc EXCEPT ![r] = "calling"]
         /\ UNCHANGED res

(***************************************************************************)
(* The handler from its entry to its first await (or its return).          *)
(***************************************************************************)
Arrive(r, bodies) ==
    /\ pc[r] = "idle"
    /\ \E b \in bodies :
        /\ body' = [body EXCEPT ![r] = b]
        /\ IF LoggingThrows(b.messages)
           THEN /\ Catch500(r)
                /\ UNCHANGED <<nimModel, nimRequest, probeCalls, upstreamCalls>>
           ELSE IF InvalidMessages(b.messages)
           THEN /\ res' = [res EXCEPT
                       ![r] = SendJson(@, 400, "invalid_request_error", Null)]
                /\ pc' = [pc EXCEPT ![r] = "done"]
                /\ UNCHANGED <<nimModel, nimRequest, probeCalls, upstreamCalls>>
           ELSE IF Truthy(MappingGet(b.model))
           THEN /\ ResolveAndCall(r, b, MappingGet(b.model))
                /\ UNCHANGED probeCalls
           ELSE IF NeedsProbe(verifiedModels, b.model)
           THEN /\ probeCalls' = [probeCalls EXCEPT ![r] = @ + 1]
                /\ pc' = [pc EXCEPT ![r] = "probing"]
                /\ UNCHANGED <<nimModel, nimRequest, upstreamCalls, res>>
           ELSE /\ ResolveAndCall(r, b, FromMemo(verifiedModels, b.model))
                /\ UNCHANGED probeCalls
    /\ UNCHANGED <<reply, verifiedModels, streamVars>>

Start(r) == Arrive(r, Bodies)

\* The same handler, for the requests that differ in their optional numbers.
StartTranscode(r) == Arrive(r, TranscodeBodies)

(***************************************************************************)
(* The probe settles.  validateStatus accepts every status below 500, so   *)
(* a 4xx resolves and a 5xx or a transport failure rejects; all but a 2xx  *)
(* record null.                                                            *)
(***************************************************************************)
\* A failed probe recorded as the fallback it leads to, not as null.
RecordedAsFallback(model, o) ==
    IF o = "2xx" \/ ~IsString(model) THEN model ELSE Fallback(model)

\* verifiedModels.set(model, model) after a 2xx, verifiedModels.set(model, null)
\* after any other status and in the catch.
Recorded(model, o) == IF o = "2xx" THEN model ELSE Null

ProbeReturn(r) ==
    /\ pc[r] = "probing"
    /\ \E o \in ProbeOutcomes :
        LET model == body[r].model
            found == IF o = "2xx" THEN model ELSE Undefined
        IN  /\ verifiedModels' = MapSet(verifiedModels, model, Recorded(model, o))
            /\ ResolveAndCall(r, body[r], found)
    /\ UNCHANGED <<reply, body, probeCalls, streamVars>>

(***************************************************************************)
(* The non-stream translation of response.data.                            *)
(***************************************************************************)
\* The closing delimiter glued to the reasoning, as the stream path writes it.
FullContentNoNewline(choice) ==
    (IF SHOW_REASONING /\ Truthy(choice.reasoning_content)
     THEN OpenTag \o choice.reasoning_content \o CloseTag ELSE "")
    \o (IF Truthy(choice.content) THEN choice.content ELSE "")

\* let fullContent = choice.message?.content || ''; with the reasoning, if
\* any, put before it as '<think>\n' + reasoning + '\n</think>\n\n'.
FullContent(choice) ==
    (IF SHOW_REASONING /\ Truthy(choice.reasoning_content)
     THEN OpenTag \o choice.reasoning_content \o "\n" \o CloseTag ELSE "")
    \o (IF Truthy(choice.content) THEN choice.content ELSE "")

TranslateChoice(choice) ==
    [index |-> choice.index,
     message |-> [role |-> choice.role, content |-> FullContent(choice)],
     finish_reason |-> choice.finish_reason]

\* response.data.usage || { prompt_tokens: 0, completion_tokens: 0, total_tokens: 0 }
UsageOrZero(usage) == IF usage.type = "object" THEN usage ELSE ZeroUsage

Translate(data, model) ==
    [model |-> model,
     choices |-> [i \in 1..Len(data.choices) |-> TranslateChoice(data.choices[i])],
     usage |-> UsageOrZero(data.usage)]

(***************************************************************************)
(* The main upstream call settles with a 2xx.  For a non-streaming request *)
(* a body without choices makes response.data.choices.map throw.           *)
(***************************************************************************)
UpstreamOk(r) ==
    /\ pc[r] = "calling"
    /\ IF Truthy(body[r].stream)
       THEN /\ \E s \in DispatchStreams : upstream' = [upstream EXCEPT ![r] = s]
            /\ res' = [res EXCEPT ![r].sse = TRUE]
            /\ pc' = [pc EXCEPT ![r] = "streaming"]
       ELSE /\ IF reply[r].hasChoices
               THEN /\ res' = [res EXCEPT
                           ![r] = [SendJson(@, 200, "chat.completion", Null)
                                     EXCEPT !.payload = Translate(reply[r], body[r].model)]]
                    /\ pc' = [pc EXCEPT ![r] = "done"]
               ELSE Catch500(r)
            /\ UNCHANGED upstream
    /\ UNCHANGED <<reply, verifiedModels, body, nimModel, nimRequest, probeCalls, upstreamCalls,
                   fed, buffer, reasoningStarted, out>>

(***************************************************************************)
(* The main upstream call is rejected with a 4xx/5xx: the catch block.     *)
(* With responseType 'stream' error.response.data is the response stream   *)
(* itself, and it is that object the envelope carries as nim_error.        *)
(* res.json serialises it: a stream that refers back to itself makes       *)
(* JSON.stringify throw inside the catch block, the handler's promise      *)
(* rejects, and the framework either leaves the rejection unhandled (no    *)
(* response) or answers with its own error page; a stream that does not    *)
(* is serialised as its internals.                                         *)
(***************************************************************************)
SerialiseOutcomes == {"circular", "internals"}
FrameworkOutcomes == {"unhandled", "errorHandler"}

UpstreamRejected(r) ==
    /\ pc[r] = "calling"
    /\ \E status \in RejectStatuses :
        IF Truthy(body[r].stream)
        THEN \E ser \in SerialiseOutcomes, fw \in FrameworkOutcomes :
                IF ser = "internals"
                THEN /\ res' = [res EXCEPT
                            ![r] = SendJson(@, status, "proxy_error", "stream-internals")]
                     /\ pc' = [pc EXCEPT ![r] = "done"]
                ELSE IF fw = "errorHandler"
                THEN /\ res' = [res EXCEPT ![r] = SendJson(@, status, "framework", Null)]
                     /\ pc' = [pc EXCEPT ![r] = "done"]
                ELSE /\ res' = [res EXCEPT ![r].statusCode = status]
                     /\ pc' = [pc EXCEPT ![r] = "rejected"]
        ELSE /\ res' = [res EXCEPT ![r] = SendJson(@, status, "proxy_error", "raw-body")]
             /\ pc' = [pc EXCEPT ![r] = "done"]
    /\ UNCHANGED <<reply, verifiedModels, body, nimModel, nimRequest, probeCalls, upstreamCalls, streamVars>>

(***************************************************************************)
(* The main upstream call fails without a response (timeout, connection).  *)
(***************************************************************************)
UpstreamUnreachable(r) ==
    /\ pc[r] = "calling"
    /\ Catch500(r)
    /\ UNCHANGED <<reply, verifiedModels, body, nimModel, nimRequest, probeCalls, upstreamCalls, streamVars>>

(***************************************************************************)
(* response.data emits 'data' with the next k bytes.                       *)
(***************************************************************************)
\* Whether res.write was called with the frame w.
Emitted(w, writes) == \E i \in 1..Len(writes) : writes[i] = w

\* One set of variables for all streaming responses, as if buffer and
\* reasoningStarted were declared outside the handler.
StateOfShared(r) ==
    [buffer |-> buffer[1], reasoningStarted |-> reasoningStarted[1], out |-> out[r]]

\* buffer and reasoningStarted are declared with let inside the handler: each
\* invocation's listeners close over their own pair.
StateOf(r) ==
    [buffer |-> buffer[r], reasoningStarted |-> reasoningStarted[r], out |-> out[r]]

Deliver(r, k) ==
    LET chunk == SubSeq(upstream[r], 1, k)
        st == OnData(StateOf(r), chunk)
    IN  /\ upstream' = [upstream EXCEPT ![r] = Slice(@, k)]
        /\ fed' = [fed EXCEPT ![r] = @ \o chunk]
        /\ buffer' = [buffer EXCEPT ![r] = st.buffer]
        /\ reasoningStarted' = [reasoningStarted EXCEPT ![r] = st.reasoningStarted]
        /\ out' = [out EXCEPT ![r] = st.out]
        /\ res' = [res EXCEPT ![r].headersSent = @ \/ st.out # <<>>]
        /\ UNCHANGED <<reply, verifiedModels, pc, body, nimModel, nimRequest, probeCalls, upstreamCalls>>

\* A chunk cut at any byte.
StreamData(r) ==
    /\ pc[r] = "streaming"
    /\ \E k \in 1..Len(upstream[r]) : Deliver(r, k)

FrameLen(s) == 1 + Least({i \in 1..Len(s) : LitAt(s, i, Boundary)})

\* A chunk that is exactly the next frame.
StreamFrame(r) ==
    /\ pc[r] = "streaming"
    /\ upstream[r] # ""
    /\ Deliver(r, FrameLen(upstream[r]))

(***************************************************************************)
(* response.data emits 'end'.                                              *)
(***************************************************************************)
StreamEnd(r) ==
    /\ pc[r] = "streaming"
    /\ upstream[r] = ""
    /\ out' = [out EXCEPT ![r] = IF SHOW_REASONING /\ StateOf(r).reasoningStarted
                                 THEN Append(@, CloseFrame) ELSE @]
    /\ res' = [res EXCEPT ![r].headersSent = TRUE, ![r].ended = @ + 1]
    /\ pc' = [pc EXCEPT ![r] = "done"]
    /\ UNCHANGED <<reply, verifiedModels, body, nimModel, nimRequest, probeCalls, upstreamCalls,
                   upstream, fed, buffer, reasoningStarted>>

(***************************************************************************)
(* response.data emits 'error'.                                            *)
(***************************************************************************)
\* The listener without its res.end(): the error frame is written and the
\* response stays open.
StreamErrorKeepsOpen(r) ==
    /\ pc[r] = "streaming"
    /\ ~Emitted(ErrorFrame, out[r])
    /\ out' = [out EXCEPT ![r] = Append(@, ErrorFrame)]
    /\ res' = [res EXCEPT ![r].headersSent = TRUE]
    /\ UNCHANGED <<reply, verifiedModels, pc, body, nimModel, nimRequest, probeCalls, upstreamCalls,
                   upstream, fed, buffer, reasoningStarted>>

StreamError(r) ==
    /\ pc[r] = "streaming"
    /\ out' = [out EXCEPT ![r] = Append(@, ErrorFrame)]
    /\ res' = [res EXCEPT ![r].headersSent = TRUE, ![r].ended = @ + 1]
    /\ pc' = [pc EXCEPT ![r] = "done"]
    /\ UNCHANGED <<reply, verifiedModels, body, nimModel, nimRequest, probeCalls, upstreamCalls,
                   upstream, fed, buffer, reasoningStarted>>

(***************************************************************************)
(* The caller closes its connection while the response streams.  The       *)
(* handler registers no 'close' or 'aborted' listener on req or res, so    *)
(* the event changes the response object and nothing of the handler: the   *)
(* upstream stream keeps flowing and its listeners keep running.  No       *)
(* action reads the field it sets, so it is a step of the streaming        *)
(* specification only.                                                     *)
(***************************************************************************)
CallerDisconnect(r) ==
    /\ pc[r] = "streaming"
    /\ ~res[r].destroyed
    /\ res' = [res EXCEPT ![r].destroyed = TRUE]
    /\ UNCHANGED <<reply, verifiedModels, pc, body, nimModel, nimRequest, probeCalls, upstreamCalls,
                   streamVars>>

(***************************************************************************)
(* The proxy: concurrent requests from their arrival to their response.    *)
(***************************************************************************)
Next ==
    \E r \in Requests :
        \/ Start(r)
        \/ ProbeReturn(r)
        \/ UpstreamOk(r)
        \/ UpstreamRejected(r)
        \/ UpstreamUnreachable(r)
        \/ StreamFrame(r)
        \/ StreamEnd(r)
        \/ StreamError(r)

Spec == Init /\ [][Next]_vars

(***************************************************************************)
(* One streaming response, from the point where the handlers are           *)
(* registered, for every upstream stream of up to MaxFrames frames.        *)
(***************************************************************************)
StreamingBody ==
    [model |-> "gpt-4", messages |-> OneMessage, stream |-> "true",
     temperature |-> Absent, max_tokens |-> Absent]

Streaming(streams) ==
    /\ verifiedModels = EmptyMap
    /\ pc = [r \in Requests |-> IF r = 1 THEN "streaming" ELSE "idle"]
    /\ body = [r \in Requests |-> IF r = 1 THEN StreamingBody ELSE NoBody]
    /\ nimModel = [r \in Requests |-> IF r = 1 THEN MODEL_MAPPING["gpt-4"] ELSE Undefined]
    /\ nimRequest = [r \in Requests |->
                        IF r = 1 THEN NimRequest(StreamingBody, MODEL_MAPPING["gpt-4"])
                        ELSE NoRequest]
    /\ probeCalls = [r \in Requests |-> 0]
    /\ upstreamCalls = [r \in Requests |-> IF r = 1 THEN 1 ELSE 0]
    /\ res = [r \in Requests |-> IF r = 1 THEN [NewResponse EXCEPT !.sse = TRUE]
                                 ELSE NewResponse]
    /\ \E s \in streams : upstream = [r \in Requests |-> IF r = 1 THEN s ELSE ""]
    /\ fed = [r \in Requests |-> ""]
    /\ buffer = [r \in Requests |-> ""]
    /\ reasoningStarted = [r \in Requests |-> FALSE]
    /\ out = [r \in Requests |-> <<>>]
    /\ reply = [r \in Requests |-> PlainReply]

InitStream == Streaming(FrameStreams)

NextStream ==
    \E r \in Requests :
        \/ StreamFrame(r)
        \/ StreamEnd(r)
        \/ StreamError(r)
        \/ CallerDisconnect(r)

SpecStream == InitStream /\ [][NextStream]_vars

(***************************************************************************)
(* The same response with its upstream bytes cut into chunks anywhere.     *)
(***************************************************************************)
InitChunks == Streaming(ChunkStreams)

NextChunks == \E r \in Requests : StreamData(r)

SpecChunks == InitChunks /\ [][NextChunks]_vars

(***************************************************************************)
(* One non-streaming request whose main call is in flight, for every       *)
(* upstream body of up to MaxChoices choices.                              *)
(***************************************************************************)
NonStreamingBody ==
    [model |-> "gpt-4", messages |-> OneMessage, stream |-> Undefined,
     temperature |-> Absent, max_tokens |-> Absent]

InitNonStream ==
    /\ verifiedModels = EmptyMap
    /\ pc = [r \in Requests |-> IF r = 1 THEN "calling" ELSE "idle"]
    /\ body = [r \in Requests |-> IF r = 1 THEN NonStreamingBody ELSE NoBody]
    /\ nimModel = [r \in Requests |-> IF r = 1 THEN MODEL_MAPPING["gpt-4"] ELSE Undefined]
    /\ nimRequest = [r \in Requests |->
                        IF r = 1 THEN NimRequest(NonStreamingBody, MODEL_MAPPING["gpt-4"])
                        ELSE NoRequest]
    /\ probeCalls = [r \in Requests |-> 0]
    /\ upstreamCalls = [r \in Requests |-> IF r = 1 THEN 1 ELSE 0]
    /\ res = [r \in Requests |-> NewResponse]
    /\ upstream = [r \in Requests |-> ""]
    /\ fed = [r \in Requests |-> ""]
    /\ buffer = [r \in Requests |-> ""]
    /\ reasoningStarted = [r \in Requests |-> FALSE]
    /\ out = [r \in Requests |-> <<>>]
    /\ \E d \in ReplyBodies : reply = [r \in Requests |-> IF r = 1 THEN d ELSE PlainReply]

NextNonStream == \E r \in Requests : UpstreamOk(r)

SpecNonStream == InitNonStream /\ [][NextNonStream]_vars

(***************************************************************************)
(* The request transcoding alone: requests arrive and are taken up to the  *)
(* main upstream call.                                                     *)
(***************************************************************************)
NextTranscode == \E r \in Requests : StartTranscode(r)

SpecTranscode == Init /\ [][NextTranscode]_vars

(***************************************************************************)
(* C1.  Framing idempotence: however the upstream bytes delivered so far   *)
(* were cut into chunks, the res.write calls made so far are those that    *)
(* feeding the same bytes as one single chunk makes.                       *)
(***************************************************************************)
FramingIdempotence ==
    \A r \in Requests :
        pc[r] = "streaming" => out[r] = OnData(NewStream, fed[r]).out

(***************************************************************************)
(* What the claims about a stream speak of: the kind of each upstream      *)
(* frame as the protocol defines it, and the content and the delimiters    *)
(* the caller receives.                                                    *)
(***************************************************************************)
KindOfDelta(reasoning, content) ==
    IF Truthy(reasoning) /\ Truthy(content) THEN "RC"
    ELSE IF Truthy(reasoning) THEN "R"
    ELSE IF Truthy(content) THEN "C"
    ELSE "none"

KindOfPayload(p) ==
    IF ~p.ok \/ p.data.choices = <<>> THEN "none"
    ELSE KindOfDelta(GetField(p.data.choices[1].delta, "reasoning_content"),
                     GetField(p.data.choices[1].delta, "content"))

\* R: reasoning only, C: answer only, RC: both, T: termination, none: the rest.
FrameKind(line) ==
    IF ~StartsWith(line, Marker) THEN "none"
    ELSE IF Slice(line, 6) = Sentinel THEN "T"
    ELSE KindOfPayload(JSONparse(Slice(line, 6)))

FragmentOfPayload(p, field) ==
    IF p.ok /\ p.data.choices # <<>> /\ Truthy(GetField(p.data.choices[1].delta, field))
    THEN GetField(p.data.choices[1].delta, field)
    ELSE ""

\* The reasoning or answer fragment an upstream line carries ("" for none).
Fragment(line, field) ==
    IF StartsWith(line, Marker) THEN FragmentOfPayload(JSONparse(Slice(line, 6)), field)
    ELSE ""

\* The complete lines of the bytes delivered so far.
LinesOf(bytes) == SubSeq(Split(bytes), 1, Len(Split(bytes)) - 1)

KindsOf(lines) == [i \in 1..Len(lines) |-> FrameKind(lines[i])]

Greatest(S) == CHOOSE i \in S : \A j \in S : j <= i

\* A frame carrying reasoning starts a run unless the last frame before it
\* that carried anything carried reasoning only.
StartsRun(ks, i) ==
    /\ ks[i] \in {"R", "RC"}
    /\ LET before == {j \in 1..(i - 1) : ks[j] # "none"}
       IN  before = {} \/ ks[Greatest(before)] # "R"

Runs(ks) == Cardinality({i \in 1..Len(ks) : StartsRun(ks, i)})

\* Whether the last run is still open after the frames ks.
RunOpen(ks) ==
    LET carrying == {j \in 1..Len(ks) : ks[j] # "none"}
    IN  carrying # {} /\ ks[Greatest(carrying)] = "R"

\* The content field of one res.write call that is a frame with a delta.
ContentOfWrite(w) ==
    IF StartsWith(w, Marker) /\ LitAt(w, Len(w) - 1, Boundary)
    THEN FragmentOfPayload(JSONparse(SubSeq(w, 7, Len(w) - 2)), "content")
    ELSE ""

EmittedContent(writes) == Concat([i \in 1..Len(writes) |-> ContentOfWrite(writes[i])])

\* The delimiters of a text, in order.
RECURSIVE TagsOf(_)
TagsOf(text) ==
    IF text = "" THEN <<>>
    ELSE IF StartsWith(text, OpenTag) THEN <<"open">> \o TagsOf(Slice(text, Len(OpenTag)))
    ELSE IF StartsWith(text, CloseTag) THEN <<"close">> \o TagsOf(Slice(text, Len(CloseTag)))
    ELSE TagsOf(Slice(text, 1))

Alternate(tags) ==
    \A i \in 1..Len(tags) : tags[i] = IF i % 2 = 1 THEN "open" ELSE "close"

Opens(tags) == Cardinality({i \in 1..Len(tags) : tags[i] = "open"})
Closes(tags) == Cardinality({i \in 1..Len(tags) : tags[i] = "close"})

Balanced(tags, ks) ==
    /\ Alternate(tags)
    /\ Opens(tags) = Runs(ks)
    /\ Closes(tags) = Opens(tags) - (IF RunOpen(ks) THEN 1 ELSE 0)

(***************************************************************************)
(* C2.  Reasoning delimiter balance: while a response streams, the content *)
(* emitted so far holds one opening delimiter per contiguous reasoning run *)
(* of the frames delivered so far and one closing delimiter per run that   *)
(* has ended, and the delimiters alternate, opening first.                 *)
(***************************************************************************)
DelimiterBalance ==
    \A r \in Requests :
        pc[r] = "streaming" =>
            Balanced(TagsOf(EmittedContent(out[r])), KindsOf(LinesOf(fed[r])))

(***************************************************************************)
(* C3.  Once the output to the caller is closed, every reasoning segment   *)
(* that was opened has been closed: the emitted content holds as many      *)
(* closing delimiters as opening ones.                                     *)
(***************************************************************************)
ClosedBeforeEnd(tags) == Opens(tags) = Closes(tags)

OpenedIsClosed ==
    \A r \in Requests :
        res[r].ended > 0 => ClosedBeforeEnd(TagsOf(EmittedContent(out[r])))

(***************************************************************************)
(* C4.  Fail-open on malformed frames: when the next upstream frame        *)
(* carries the marker and a body that is neither valid JSON nor the        *)
(* termination sentinel, delivering it writes that frame, boundary         *)
(* included, and nothing else, and leaves reasoningStarted as it was.      *)
(***************************************************************************)
NextLine(bytes) == SubSeq(bytes, 1, FrameLen(bytes) - 2)

Malformed(line) ==
    /\ StartsWith(line, Marker)
    /\ Slice(line, 6) # Sentinel
    /\ ~JSONparse(Slice(line, 6)).ok

ForwardedUnmodified(r) ==
    /\ out'[r] = Append(out[r], NextLine(upstream[r]) \o Boundary)
    /\ reasoningStarted'[r] = reasoningStarted[r]

FailOpen ==
    [][\A r \in Requests :
          (/\ pc[r] = "streaming"
           /\ upstream[r] # ""
           /\ fed'[r] # fed[r]
           /\ Malformed(NextLine(upstream[r]))) => ForwardedUnmodified(r)]_vars

(***************************************************************************)
(* C8.  For an upstream stream of reasoning-only frames, then answer-only  *)
(* frames, then the termination frame, once it is all delivered the        *)
(* emitted content is the opening delimiter, the reasoning fragments, the  *)
(* closing delimiter and the answer fragments, and the writes end with the *)
(* one and only termination frame.                                         *)
(***************************************************************************)
FramesOf(bytes) == SelectSeq(LinesOf(bytes), LAMBDA l : l # "")

IsScenario(ks) ==
    /\ Len(ks) >= 3
    /\ ks[Len(ks)] = "T"
    /\ \E n \in 1..(Len(ks) - 2) :
          /\ \A i \in 1..n : ks[i] = "R"
          /\ \A i \in (n + 1)..(Len(ks) - 1) : ks[i] = "C"

Fragments(frames, field) ==
    Concat([i \in 1..Len(frames) |-> Fragment(frames[i], field)])

ScenarioOutput(frames, writes) ==
    /\ EmittedContent(writes) =
           OpenTag \o Fragments(frames, "reasoning_content") \o CloseTag
                   \o Fragments(frames, "content")
    /\ writes # <<>>
    /\ writes[Len(writes)] = DoneFrame
    /\ Cardinality({i \in 1..Len(writes) : writes[i] = DoneFrame}) = 1

ReasoningThenAnswer ==
    \A r \in Requests :
        (/\ pc[r] = "streaming"
         /\ upstream[r] = ""
         /\ IsScenario(KindsOf(FramesOf(fed[r]))))
            => ScenarioOutput(FramesOf(fed[r]), out[r])

(***************************************************************************)
(* What the claims about a request speak of.                               *)
(***************************************************************************)
Finished(r) == pc[r] \in {"done", "rejected"}

WellValidated(r) == body[r].messages.type = "array" /\ body[r].messages.length > 0

Unmapped(model) == IsString(model) /\ model \notin DOMAIN MODEL_MAPPING

\* The request issued a probe, the probe settled, and it did not confirm the
\* model (a confirmed model is itself the resolved model).
ProbeFailed(r) ==
    /\ probeCalls[r] = 1
    /\ pc[r] \in {"calling", "streaming", "done", "rejected"}
    /\ nimModel[r] # body[r].model

(***************************************************************************)
(* C5.  Exactly one response per request: a request that has run to its    *)
(* end has had its response ended exactly once, and no JSON body is sent   *)
(* on a response whose streaming headers are set.                          *)
(***************************************************************************)
ExactlyOneResponse ==
    \A r \in Requests :
        /\ Finished(r) => res[r].ended = 1
        /\ res[r].ended <= 1
        /\ res[r].sse => res[r].sent = "none"

(***************************************************************************)
(* C6.  Non-empty-conversation invariant: a request whose messages is      *)
(* missing or the empty array gets the 400 invalid_request_error envelope  *)
(* and issues neither a probe nor the main upstream call.                  *)
(***************************************************************************)
EmptyConversationRejected ==
    \A r \in Requests :
        (pc[r] # "idle" /\ body[r].messages \in {NoMessages, EmptyMessages}) =>
            /\ pc[r] = "done"
            /\ res[r].statusCode = 400
            /\ res[r].sent = "invalid_request_error"
            /\ res[r].ended = 1
            /\ probeCalls[r] = 0
            /\ upstreamCalls[r] = 0

\* Such a request was answered while the memo held an entry for its model.
EmptyConversationSeen ==
    \E r \in Requests :
        /\ pc[r] = "done"
        /\ body[r].messages = EmptyMessages
        /\ MapHas(verifiedModels, body[r].model)

(***************************************************************************)
(* C7.  Resolver determinism under cache hit: a handler that starts while  *)
(* the memo holds an entry for its model issues no probe, and for a model  *)
(* identifier it goes on to the main call with the confirmed identifier,   *)
(* or with the heuristic fallback when the entry is the unconfirmed mark.  *)
(***************************************************************************)
CacheHit(r) ==
    /\ pc[r] = "idle"
    /\ pc'[r] # "idle"
    /\ WellValidated(r)'
    /\ MapHas(verifiedModels, body'[r].model)

ResolvedFromMemo(r) ==
    /\ probeCalls'[r] = probeCalls[r]
    /\ pc'[r] # "probing"
    /\ IsString(body'[r].model) =>
          /\ pc'[r] = "calling"
          /\ nimModel'[r] = IF verifiedModels[body'[r].model] = Null
                            THEN Fallback(body'[r].model)
                            ELSE verifiedModels[body'[r].model]

CacheHitNoProbe == [][\A r \in Requests : CacheHit(r) => ResolvedFromMemo(r)]_vars

\* A request for an unmapped identifier reached the main call without a probe
\* of its own, on the fallback of the unconfirmed mark another request left.
CacheHitSeen ==
    \E r \in Requests :
        /\ pc[r] = "calling"
        /\ probeCalls[r] = 0
        /\ Unmapped(body[r].model)
        /\ MapHas(verifiedModels, body[r].model)
        /\ verifiedModels[body[r].model] = Null
        /\ nimModel[r] = Fallback(body[r].model)

(***************************************************************************)
(* C9.  Model resolution never fails: a well-validated request that is     *)
(* past resolution has a resolved model and has issued the main upstream   *)
(* call, whatever its model field and its probe outcome were.              *)
(***************************************************************************)
ResolutionNeverFails ==
    \A r \in Requests :
        (WellValidated(r) /\ pc[r] \notin {"idle", "probing"}) =>
            /\ Truthy(nimModel[r])
            /\ upstreamCalls[r] = 1

(***************************************************************************)
(* C10, as claimed.  An unmapped identifier that contains "70b" in any     *)
(* letter case and whose probe failed resolves to the medium tier.         *)
(***************************************************************************)
SeventyBIsMedium ==
    \A r \in Requests :
        (/\ WellValidated(r)
         /\ Unmapped(body[r].model)
         /\ ProbeFailed(r)
         /\ Includes(toLowerCase(body[r].model), "70b")) => nimModel[r] = MediumTier

\* The identifier carries none of the markers the heuristic tests before "70b".
NoLargeMarker(ml) ==
    ~Includes(ml, "gpt-4") /\ ~Includes(ml, "claude-opus") /\ ~Includes(ml, "405b")

(***************************************************************************)
(* C10, amended.  An unmapped identifier that contains "70b" in any letter *)
(* case and none of "gpt-4", "claude-opus", "405b", and whose probe        *)
(* failed, resolves to the medium tier.                                    *)
(***************************************************************************)
SeventyBWithoutLargeMarkerIsMedium ==
    \A r \in Requests :
        (/\ WellValidated(r)
         /\ Unmapped(body[r].model)
         /\ ProbeFailed(r)
         /\ Includes(toLowerCase(body[r].model), "70b")
         /\ NoLargeMarker(toLowerCase(body[r].model))) => nimModel[r] = MediumTier

\* Such an identifier, written with a capital B, was resolved after its probe failed.
SeventyBSeen ==
    \E r \in Requests :
        /\ body[r].model = "Llama-70B"
        /\ WellValidated(r)
        /\ ProbeFailed(r)
        /\ pc[r] = "calling"
        /\ nimModel[r] = MediumTier

(***************************************************************************)
(* C11.  Upstream rejection: a request whose main upstream call was        *)
(* rejected with a 4xx/5xx has received exactly one proxy_error envelope   *)
(* with the upstream's status and the upstream's raw error body, for a     *)
(* streaming request as for a non-streaming one.                           *)
(***************************************************************************)
RejectionEnvelope ==
    \A r \in Requests :
        (Finished(r) /\ res[r].statusCode \in RejectStatuses) =>
            /\ res[r].sent = "proxy_error"
            /\ res[r].nimError = "raw-body"
            /\ res[r].ended = 1

(***************************************************************************)
(* C12.  Cancellation: once the caller has disconnected, no further        *)
(* upstream chunk is processed for the request and res.write is not called *)
(* again.                                                                  *)
(***************************************************************************)
Cancellation ==
    [][\A r \in Requests :
          res[r].destroyed => (fed'[r] = fed[r] /\ out'[r] = out[r])]_vars

(***************************************************************************)
(* C13.  Per-request transcoder state is never shared: with the streaming  *)
(* responses of concurrent requests interleaved in any way, the residual   *)
(* buffer, the reasoning-open flag and the writes of each response are     *)
(* those the bytes delivered to that response alone produce, followed,     *)
(* once it is closed, by what its own 'end' or 'error' listener writes.    *)
(***************************************************************************)
EndWrites(open) == IF SHOW_REASONING /\ open THEN <<CloseFrame>> ELSE <<>>

AsAlone(r, alone) ==
    /\ buffer[r] = alone.buffer
    /\ reasoningStarted[r] = alone.reasoningStarted
    /\ pc[r] = "streaming" => out[r] = alone.out
    /\ pc[r] = "done" =>
          \/ out[r] = alone.out \o EndWrites(alone.reasoningStarted)
          \/ out[r] = Append(alone.out, ErrorFrame)

ExpectedContent(choice) ==
    IF Truthy(choice.reasoning_content)
    THEN "<think>\n" \o choice.reasoning_content \o "\n</think>\n\n" \o choice.content
    ELSE choice.content

TranslatedAsClaimed(data, payload) ==
    /\ Len(payload.choices) = Len(data.choices)
    /\ \A i \in 1..Len(data.choices) :
          IsString(data.choices[i].content) =>
              payload.choices[i].message.content = ExpectedContent(data.choices[i])
    /\ data.usage.type = "undefined" =>
          /\ payload.usage.prompt_tokens = 0
          /\ payload.usage.completion_tokens = 0
          /\ payload.usage.total_tokens = 0

NonStreamTranslation ==
    \A r \in Requests :
        res[r].sent = "chat.completion" => TranslatedAsClaimed(reply[r], res[r].payload)

\* A body without usage was translated whose first choice carries reasoning
\* and content and whose second carries content alone.
NonStreamSeen ==
    \E r \in Requests :
        /\ res[r].sent = "chat.completion"
        /\ reply[r].usage = NoUsage
        /\ Len(reply[r].choices) = 2
        /\ reply[r].choices[1].reasoning_content = "r"
        /\ reply[r].choices[1].content = "c"
        /\ reply[r].choices[2].reasoning_content = Undefined
        /\ reply[r].choices[2].content = "c"
        /\ res[r].payload.choices[2].message.content = "c"

(***************************************************************************)
(* C15.  Termination frame handling: delivering the termination frame      *)
(* writes the closing-delimiter frame exactly when a reasoning segment is  *)
(* open, then the termination frame; and once the termination frame has    *)
(* been written, the upstream frames that follow write nothing more.       *)
(***************************************************************************)
TerminationWrites(r) ==
    out'[r] = out[r] \o EndWrites(reasoningStarted[r]) \o <<DoneFrame>>

TerminationIsTerminal ==
    [][\A r \in Requests :
          /\ (/\ pc[r] = "streaming"
              /\ upstream[r] # ""
              /\ fed'[r] # fed[r]
              /\ NextLine(upstream[r]) = DoneLine
              /\ ~Emitted(DoneFrame, out[r])) => TerminationWrites(r)
          /\ (Emitted(DoneFrame, out[r]) /\ fed'[r] # fed[r]) => out'[r] = out[r]]_vars

(***************************************************************************)
(* C16.  Only the sentinel itself is a termination frame: delivering a     *)
(* marked frame whose payload is a valid JSON delta writes exactly one     *)
(* frame, which is not the termination frame and whose content holds the   *)
(* reasoning and answer text of the delta.                                 *)
(***************************************************************************)
ValidDelta(line) == StartsWith(line, Marker) /\ JSONparse(Slice(line, 6)).ok

CarriesTextOf(w, line) ==
    /\ w # DoneFrame
    /\ Includes(ContentOfWrite(w), Fragment(line, "reasoning_content"))
    /\ Includes(ContentOfWrite(w), Fragment(line, "content"))

ReEmitted(r, line) ==
    /\ Len(out'[r]) = Len(out[r]) + 1
    /\ SubSeq(out'[r], 1, Len(out[r])) = out[r]
    /\ CarriesTextOf(out'[r][Len(out'[r])], line)

OnlySentinelTerminates ==
    [][\A r \in Requests :
          (/\ pc[r] = "streaming"
           /\ upstream[r] # ""
           /\ fed'[r] # fed[r]
           /\ ValidDelta(NextLine(upstream[r]))) => ReEmitted(r, NextLine(upstream[r]))]_vars

(***************************************************************************)
(* C17.  The reasoning field is always stripped: no frame written after a  *)
(* successful parse has a reasoning_content field in the delta of any of   *)
(* its choices.                                                            *)
(***************************************************************************)
IsFrame(w) == StartsWith(w, Marker) /\ LitAt(w, Len(w) - 1, Boundary)

Stripped(p) ==
    p.ok => \A i \in 1..Len(p.data.choices) :
                ~HasField(p.data.choices[i].delta, "reasoning_content")

ReasoningStripped ==
    \A r \in Requests :
        \A i \in 1..Len(out[r]) :
            IsFrame(out[r][i]) =>
                Stripped(JSONparse(SubSeq(out[r][i], 7, Len(out[r][i]) - 2)))

(***************************************************************************)
(* C18.  Upstream transport error mid-stream: a response on which the      *)
(* in-band error event was written carries it once, as its last write,     *)
(* and has been closed exactly once; the request has made its one main     *)
(* upstream call and no other.                                             *)
(***************************************************************************)
ErrorEvents(writes) == Cardinality({i \in 1..Len(writes) : writes[i] = ErrorFrame})

MidStreamError ==
    \A r \in Requests :
        Emitted(ErrorFrame, out[r]) =>
            /\ ErrorEvents(out[r]) = 1
            /\ out[r][Len(out[r])] = ErrorFrame
            /\ res[r].ended = 1
            /\ pc[r] = "done"
            /\ upstreamCalls[r] = 1

\* The upstream stream failed after a frame had been written to the caller.
MidStreamErrorSeen ==
    \E r \in Requests :
        /\ pc[r] = "done"
        /\ Len(out[r]) = 2
        /\ ContentOfWrite(out[r][1]) = OpenTag \o "hi"
        /\ out[r][2] = ErrorFrame
        /\ upstream[r] # ""

(***************************************************************************)
(* C19.  Request transcoding applies a default only when the caller omits  *)
(* the field: the upstream request carries every temperature and           *)
(* max_tokens the caller supplied, 0 included, carries 0.85 and 1009024    *)
(* where the field is absent, and carries the messages unchanged.          *)
(***************************************************************************)
DefaultsOnlyWhenOmitted ==
    \A r \in Requests :
        upstreamCalls[r] = 1 =>
            /\ nimRequest[r].messages = body[r].messages
            /\ nimRequest[r].temperature =
                   OrDefaultIfAbsent(body[r].temperature, DefaultTemperature)
            /\ nimRequest[r].max_tokens =
                   OrDefaultIfAbsent(body[r].max_tokens, DefaultMaxTokens)

(***************************************************************************)
(* C20, as claimed.  Memo stability under concurrency: an entry of the     *)
(* memo, once recorded, keeps its value for the rest of the process        *)
(* lifetime.                                                               *)
(***************************************************************************)
MemoStable ==
    [][\A k \in DOMAIN verifiedModels :
          k \in DOMAIN verifiedModels' /\ verifiedModels'[k] = verifiedModels[k]]_vars

\* The probe request r issued for the identifier k settles in this step.
ProbeSettles(r, k) == pc[r] = "probing" /\ body[r].model = k /\ pc'[r] # "probing"

(***************************************************************************)
(* C20, amended.  An entry of the memo is never removed and holds either   *)
(* the identifier itself (confirmed) or the unconfirmed mark; it changes   *)
(* only when a probe issued for that identifier settles, so that of        *)
(* concurrent probes for one identifier the last to settle wins.           *)
(***************************************************************************)
MemoLastWriterWins ==
    [][/\ \A k \in DOMAIN verifiedModels :
             /\ k \in DOMAIN verifiedModels'
             /\ verifiedModels'[k] # verifiedModels[k] =>
                    \E r \in Requests : ProbeSettles(r, k)
       /\ \A k \in DOMAIN verifiedModels' : verifiedModels'[k] \in {k, Null}]_vars

\* A request went on with the identifier its own probe confirmed, and the
\* memo now holds the unconfirmed mark a concurrent probe left for it.
MemoOverwrittenSeen ==
    \E r \in Requests :
        /\ Unmapped(body[r].model)
        /\ probeCalls[r] = 1
        /\ pc[r] = "calling"
        /\ nimModel[r] = body[r].model
        /\ MapHas(verifiedModels, body[r].model)
        /\ verifiedModels[body[r].model] = Null

====
